---- MODULE Spec2Model ----
(***************************************************************************)
(* Model of the pyos spatial index: Quadtree (add, get_items, item_count,  *)
(* populate_children), the quadrant splitter Children, the batch helper    *)
(* quadtree_from_pairs, and the Vector / Point primitives they rely on.    *)
(*                                                                         *)
(* Coordinates are fixed-point: every float of the program is an integer   *)
(* number of ticks, one tick being 1e-6 / Tol, so that the tolerance of    *)
(* almost_equal, the hundredths of the documented example and every        *)
(* quadrant centre down to the default depth are exact.                    *)
(* A Vector whose coordinates are assigned and normalised lives on a       *)
(* coarser grid, 1.0 being Unit, with an integer square root.              *)
(***************************************************************************)
EXTENDS Integers, Sequences, FiniteSets, TLC

\* ------------------------------------------------------------ bounds
MaxAdds == 2
MaxLevel == 2
MaxPairs == 2
\* The fixed-point resolution of the coordinates of a mutable Vector: 1.0 is
\* Unit, so that the normalisation of (3, 4) is exact.
Unit == 5

\* --------------------------------------------------------- constants
\* almost_equal's default d = 1e-6, in ticks.
Tol == 16
\* math.inf: above every finite coordinate and every finite area.
Inf == 1000000000
\* Quadtree.__cinit__'s default max_level.
DefaultMaxLevel == 8
\* 1.0 in ticks, and n hundredths in ticks.
One == 1000000 * Tol
H(n) == n * (One \div 100)

Abs(n) == IF n < 0 THEN -n ELSE n
SetMin(S) == CHOOSE x \in S : \A y \in S : x <= y
Min2(a, b) == IF a <= b THEN a ELSE b
Max2(a, b) == IF a >= b THEN a ELSE b

\* Float arithmetic on finite ticks, Inf, -Inf and NaN (inf - inf, inf * 0).
NaN == Inf + 1
IsInf(a) == a # NaN /\ (a = Inf \/ a = -Inf)
FSub(a, b) ==
    IF a = NaN \/ b = NaN THEN NaN
    ELSE IF IsInf(a) THEN (IF b = a THEN NaN ELSE a)
    ELSE IF IsInf(b) THEN -b
    ELSE a - b
FAdd(a, b) ==
    IF a = NaN \/ b = NaN THEN NaN
    ELSE IF IsInf(a) THEN (IF b = -a THEN NaN ELSE a)
    ELSE IF IsInf(b) THEN b
    ELSE a + b
FMul(a, b) ==
    IF a = NaN \/ b = NaN THEN NaN
    ELSE IF IsInf(a) \/ IsInf(b)
         THEN IF a = 0 \/ b = 0 THEN NaN
              ELSE IF (a > 0) = (b > 0) THEN Inf ELSE -Inf
    ELSE a * b
FHalf(a) == IF a = NaN \/ IsInf(a) THEN a ELSE a \div 2

RECURSIVE Flatten(_)
Flatten(ss) == IF ss = <<>> THEN <<>> ELSE Head(ss) \o Flatten(Tail(ss))

\* ------------------------------------------------------------ Vector
\* Vector.__init__ / Point.__init__: the fields of a fresh instance.
Vector(x, y) ==
    [kind |-> "Vector", x |-> x, y |-> y, precision |-> Tol,
     rtype |-> "Vector", length |-> 0, dirty |-> 1]
Point(x, y) == [Vector(x, y) EXCEPT !.kind = "Point", !.rtype = "Point"]

\* Vector.almost_equal(self, other, d)
almost_equal(self, other, d) ==
    Abs(self.x - other.x) <= Abs(d) /\ Abs(self.y - other.y) <= Abs(d)

IsVector(v) == v.kind \in {"Vector", "Point"}
IsNumber(v) == v.kind = "number"
IsTuple(v) == v.kind = "tuple"
Raise(exc) == [kind |-> "raise", exc |-> exc]
None == [kind |-> "None"]
\* self.rtype(x, y)
Construct(rtype, x, y) == IF rtype = "Point" THEN Point(x, y) ELSE Vector(x, y)

\* Vector(x, y, precision)
VectorP(x, y, precision) == [Vector(x, y) EXCEPT !.precision = precision]

Bool(b) == [kind |-> "bool", v |-> b]

\* v.almost_equal(other, d) and v.almost_equal(other): d defaults to the
\* literal 1e-6 of the signature.  The TypeError of the body is raised in a
\* cpdef function returning bint: Outcomes is what the build can make of it,
\* the exception when it propagates, False when it is only reported.
Vector_almost_equal(self, other, d) ==
    IF IsVector(other) THEN Bool(almost_equal(self, other, d))
    ELSE Raise("TypeError")
Vector_almost_equal_default(self, other) ==
    Vector_almost_equal(self, other, Tol)
Outcomes(r) == IF r = Raise("TypeError") THEN {r, Bool(FALSE)} ELSE {r}

\* Mutant of Vector.__eq__: the default tolerance instead of the precision.
Vector__eq__Default(self, other) == Vector_almost_equal(self, other, Tol)

\* Vector.__eq__(self, other)
Vector__eq__(self, other) == Vector_almost_equal(self, other, self.precision)

Number(v) == [kind |-> "number", v |-> v]
\* sqrt on the fixed-point grid: the integer square root
Sqrt(n) == CHOOSE r \in 0..n : r * r <= n /\ (r + 1) * (r + 1) > n
\* a / b for two fixed-point numbers, rounded towards zero
FDiv(a, b) ==
    LET q == (Abs(a) * Unit) \div Abs(b)
    IN  IF (a < 0) = (b < 0) THEN q ELSE -q

\* Mutant of the x setter: the cached length left valid.
Vector_set_xStale(self, v) ==
    IF IsNumber(v) THEN [self |-> [self EXCEPT !.x = v.v], ret |-> None]
    ELSE [self |-> self, ret |-> Raise("TypeError")]

\* The setters of x and y: the vector after the assignment and its outcome
Vector_set_x(self, v) ==
    IF IsNumber(v)
    THEN [self |-> [self EXCEPT !.x = v.v, !.dirty = 1], ret |-> None]
    ELSE [self |-> self, ret |-> Raise("TypeError")]
Vector_set_y(self, v) ==
    IF IsNumber(v)
    THEN [self |-> [self EXCEPT !.y = v.v, !.dirty = 1], ret |-> None]
    ELSE [self |-> self, ret |-> Raise("TypeError")]

\* The length property: the vector after the read and the value read
Vector_length(self) ==
    LET s == IF self.dirty # 0
             THEN [self EXCEPT !.length = Sqrt(self.x * self.x + self.y * self.y),
                               !.dirty = 0]
             ELSE self
    IN  [self |-> s, ret |-> Number(s.length)]

\* Vector.normalized()
Vector_normalized(self) ==
    LET l == Vector_length(self)
        vlen == l.ret.v
    IN  IF vlen # 0
        THEN [self |-> l.self,
              ret |-> Vector(FDiv(l.self.x, vlen), FDiv(l.self.y, vlen))]
        ELSE [self |-> l.self, ret |-> Raise("ValueError")]

\* Mutant of Vector.normalize(): False returned for a zero length.
Vector_normalizeFalse(self) ==
    LET l == Vector_length(self)
        vlen == l.ret.v
    IN  IF vlen # 0
        THEN [self |-> [l.self EXCEPT !.dirty = 1, !.x = FDiv(@, vlen),
                                      !.y = FDiv(@, vlen)],
              ret |-> Bool(TRUE)]
        ELSE [self |-> l.self, ret |-> Bool(FALSE)]

\* Vector.normalize()
Vector_normalize(self) ==
    LET l == Vector_length(self)
        vlen == l.ret.v
    IN  IF vlen # 0
        THEN [self |-> [l.self EXCEPT !.dirty = 1, !.x = FDiv(@, vlen),
                                      !.y = FDiv(@, vlen)],
              ret |-> Bool(TRUE)]
        ELSE [self |-> l.self, ret |-> Raise("ValueError")]

\* Vector.__getitem__(self, key)
Vector__getitem__(self, key) ==
    IF key = 0 THEN [kind |-> "number", v |-> self.x]
    ELSE IF key = 1 THEN [kind |-> "number", v |-> self.y]
    ELSE Raise("IndexError")

\* Mutant of Vector.__add__: the result type of the right operand.
Vector__add__Other(self, other) ==
    IF IsVector(self) /\ IsVector(other)
    THEN Construct(other.rtype, self.x + other.x, self.y + other.y)
    ELSE Raise("TypeError")

\* Vector.__add__(self, other); a number is [kind "number", v], a tuple is
\* [kind "tuple", items], anything else has another kind.
Vector__add__(self, other) ==
    LET pair(t) == IsTuple(t) /\ Len(t.items) = 2
    IN  IF IsVector(self) /\ IsNumber(other)
        THEN Construct(self.rtype, self.x + other.v, self.y + other.v)
        ELSE IF IsVector(self) /\ IsVector(other)
        THEN Construct(self.rtype, self.x + other.x, self.y + other.y)
        ELSE IF IsVector(other) /\ IsNumber(self)
        THEN Construct(other.rtype, other.x + self.v, other.y + self.v)
        ELSE IF pair(other) /\ IsVector(self)
        THEN Construct(self.rtype, self.x + other.items[1],
                       self.y + other.items[2])
        ELSE IF pair(self) /\ IsVector(other)
        THEN Construct(other.rtype, other.x + self.items[1],
                       other.y + self.items[2])
        ELSE Raise("TypeError")

\* -------------------------------------------------------------- AABB
\* AABB(box): the corners normalised so that min <= max on each axis.
AABB(box) ==
    [kind |-> "AABB",
     x1 |-> Min2(box[1], box[3]), y1 |-> Min2(box[2], box[4]),
     x2 |-> Max2(box[1], box[3]), y2 |-> Max2(box[2], box[4])]
\* AABB.box, and AABB.__getitem__ on it (Python index i, from 0)
AabbBox(a) == <<a.x1, a.y1, a.x2, a.y2>>
IsAABB(p) == p.kind = "AABB"

\* region <= position: position lies within or on the boundary of region
AabbLe(r, p) ==
    IF IsAABB(p)
    THEN r.x1 <= p.x1 /\ p.x2 <= r.x2 /\ r.y1 <= p.y1 /\ p.y2 <= r.y2
    ELSE r.x1 <= p.x /\ p.x <= r.x2 /\ r.y1 <= p.y /\ p.y <= r.y2
\* region >= query: region and query share any area or boundary
AabbGe(r, q) ==
    IF IsAABB(q)
    THEN r.x1 <= q.x2 /\ q.x1 <= r.x2 /\ r.y1 <= q.y2 /\ q.y1 <= r.y2
    ELSE r.x1 <= q.x /\ q.x <= r.x2 /\ r.y1 <= q.y /\ q.y <= r.y2
\* region > query: the same without the boundary
AabbGt(r, q) ==
    IF IsAABB(q)
    THEN r.x1 < q.x2 /\ q.x1 < r.x2 /\ r.y1 < q.y2 /\ q.y1 < r.y2
    ELSE r.x1 < q.x /\ q.x < r.x2 /\ r.y1 < q.y /\ q.y < r.y2

\* ---------------------------------------------------------- Children
\* Children.__init__: ul, ur, dl, dr of box, split at its centre.
Children(box) ==
    LET cx == FAdd(FHalf(FSub(box[3], box[1])), box[1])
        cy == FAdd(FHalf(FSub(box[4], box[2])), box[2])
    IN  << AABB(<<box[1], box[2], cx, cy>>),
           AABB(<<cx, box[2], box[3], cy>>),
           AABB(<<box[1], cy, cx, box[4]>>),
           AABB(<<cx, cy, box[3], box[4]>>) >>

\* ---------------------------------------------------------- Quadtree
\* A tree is a map from node references to nodes; a reference is the path
\* of quadrant indices (0..3) from the root, and child_nodes holds references.
Root == <<>>

\* Quadtree.__cinit__
Quadtree(box, max_level) ==
    [aabb |-> AABB(box), children |-> Children(box), child_nodes |-> <<>>,
     items |-> <<>>, positions |-> <<>>, max_level |-> max_level]

NewTree(box, max_level) == (Root :> Quadtree(box, max_level))

\* Mutant of populate_children: the quadrants handed out in reverse order.
populate_childrenReversed(t, self) ==
    IF t[self].child_nodes # <<>> THEN t
    ELSE LET refs == [i \in 1..4 |-> Append(self, i - 1)]
             kids == [r \in {refs[i] : i \in 1..4} |->
                        Quadtree(AabbBox(t[self].children[4 - r[Len(r)]]),
                                 t[self].max_level - 1)]
         IN  [t EXCEPT ![self].child_nodes = refs] @@ kids

\* Quadtree.populate_children
populate_children(t, self) ==
    IF t[self].child_nodes # <<>> THEN t
    ELSE LET refs == [i \in 1..4 |-> Append(self, i - 1)]
             kids == [r \in {refs[i] : i \in 1..4} |->
                        Quadtree(AabbBox(t[self].children[r[Len(r)] + 1]),
                                 t[self].max_level - 1)]
         IN  [t EXCEPT ![self].child_nodes = refs] @@ kids

\* Quadtree.item_count
RECURSIVE item_count(_, _)
item_count(t, self) ==
    LET kids == t[self].child_nodes
        RECURSIVE Sum(_)
        Sum(i) == IF i > Len(kids) THEN 0
                  ELSE item_count(t, kids[i]) + Sum(i + 1)
    IN  Len(t[self].items) + Sum(1)

\* Mutant of AppendEntry: the entry appended to the root, not to node.
AppendEntryRoot(t, node, obj, pos) ==
    [t EXCEPT ![Root].items = Append(@, obj),
              ![Root].positions = Append(@, pos)]

\* node.items.append(obj); node.positions.append(pos)
AppendEntry(t, node, obj, pos) ==
    [t EXCEPT ![node].items = Append(@, obj),
              ![node].positions = Append(@, pos)]

\* Mutants of FirstHit: the last containing node instead of the first, and
\* a containing node that already has children preferred.
FirstHitLast(t, nodes, pos) ==
    LET hits == {i \in 1..Len(nodes) : AabbLe(t[nodes[i]].aabb, pos)}
    IN  IF hits = {} THEN 0 ELSE -SetMin({-i : i \in hits})
FirstHitSticky(t, nodes, pos) ==
    LET hits == {i \in 1..Len(nodes) : AabbLe(t[nodes[i]].aabb, pos)}
        used == {i \in hits : t[nodes[i]].child_nodes # <<>>}
    IN  IF hits = {} THEN 0
        ELSE IF used # {} THEN SetMin(used) ELSE SetMin(hits)

\* The scan of one level in add: the first node of nodes whose region
\* contains pos (0 when there is none).
FirstHit(t, nodes, pos) ==
    LET hits == {i \in 1..Len(nodes) : AabbLe(t[nodes[i]].aabb, pos)}
    IN  IF hits = {} THEN 0 ELSE SetMin(hits)

\* Mutants of NoFit: the fallback to the parent forgotten.
NoFitMiss(t, parent, first, obj, pos) == [tree |-> t, ret |-> FALSE]
NoFitDrop(t, parent, first, obj, pos) == [tree |-> t, ret |-> ~first]

\* add, when no node of the level contains pos
NoFit(t, parent, first, obj, pos) ==
    IF first THEN [tree |-> t, ret |-> FALSE]
    ELSE [tree |-> AppendEntry(t, parent, obj, pos), ret |-> TRUE]

\* Mutant of HasBudget: a node of max_level 0 subdivided once more.
HasBudgetOneMore(node) == node.max_level >= 0

\* if node.max_level: the node may be subdivided
HasBudget(node) == node.max_level # 0

\* The outcome r of add, with the number of iterations of its while loop.
Visited(r, levels) == [tree |-> r.tree, ret |-> r.ret, levels |-> levels]

\* The while loop of Quadtree.add: one call per iteration, that is per level.
RECURSIVE AddLoop(_, _, _, _, _, _)
AddLoop(t, nodes, parent, first, obj, pos) ==
    LET i == FirstHit(t, nodes, pos)
    IN  IF i = 0 THEN Visited(NoFit(t, parent, first, obj, pos), 1)
        ELSE LET node == nodes[i]
             IN  IF HasBudget(t[node])
                 THEN LET t2 == IF t[node].child_nodes = <<>>
                                THEN populate_children(t, node) ELSE t
                          r == AddLoop(t2, t2[node].child_nodes, node, FALSE,
                                       obj, pos)
                      IN  Visited(r, r.levels + 1)
                 ELSE Visited([tree |-> AppendEntry(t, node, obj, pos),
                               ret |-> TRUE], 1)

\* Mutant of add: the root subdivided before its region is tested.
addEager(t, obj, pos) ==
    AddLoop(populate_children(t, Root), <<Root>>, Root, TRUE, obj, pos)

\* Quadtree.add(obj, pos): the tree after the call and the value returned
add(t, obj, pos) == AddLoop(t, <<Root>>, Root, TRUE, obj, pos)

\* Phase 1 of get_items: one call per level of potential_matches; the
\* result pairs potential_items with positions.
RECURSIVE Collect(_, _, _)
Collect(t, potential_matches, pos) ==
    IF potential_matches = <<>> THEN <<>>
    ELSE LET pass == SelectSeq(potential_matches,
                               LAMBDA n : AabbGe(t[n].aabb, pos))
             here == Flatten([k \in 1..Len(pass) |->
                        [j \in 1..Len(t[pass[k]].items) |->
                            [item |-> t[pass[k]].items[j],
                             position |-> t[pass[k]].positions[j]]]])
             next == Flatten([k \in 1..Len(pass) |-> t[pass[k]].child_nodes])
         IN  here \o Collect(t, next, pos)

\* Phase 1 of get_items: the number of iterations of its while loop, that
\* is of levels of potential_matches.
RECURSIVE CollectLevels(_, _, _)
CollectLevels(t, potential_matches, pos) ==
    IF potential_matches = <<>> THEN 0
    ELSE LET pass == SelectSeq(potential_matches,
                               LAMBDA n : AabbGe(t[n].aabb, pos))
             next == Flatten([k \in 1..Len(pass) |-> t[pass[k]].child_nodes])
         IN  1 + CollectLevels(t, next, pos)

\* Phase 2 of get_items: the decision for one collected entry
Accept(pos, it_pos, overlap) ==
    LET pos_is_aabb == IsAABB(pos)
        it_pos_is_aabb == IsAABB(it_pos)
        add1 == ~pos_is_aabb /\ ~it_pos_is_aabb
                /\ almost_equal(Point(pos.x, pos.y),
                                Point(it_pos.x, it_pos.y), Tol)
    IN  \/ add1
        \/ /\ ~add1 /\ overlap
           /\ \/ pos_is_aabb /\ AabbGe(pos, it_pos)
              \/ ~pos_is_aabb /\ it_pos_is_aabb /\ AabbGe(it_pos, pos)
        \/ /\ ~add1 /\ ~overlap
           /\ \/ pos_is_aabb /\ AabbGt(pos, it_pos)
              \/ ~pos_is_aabb /\ it_pos_is_aabb /\ AabbGt(it_pos, pos)

\* Mutant of get_items: the kept items in reverse order.
get_itemsReversed(t, pos, overlap) ==
    LET cand == Collect(t, <<Root>>, pos)
        kept == SelectSeq(cand, LAMBDA e : Accept(pos, e.position, overlap))
    IN  [i \in 1..Len(kept) |-> kept[Len(kept) + 1 - i].item]

\* Quadtree.get_items(pos, overlap)
get_items(t, pos, overlap) ==
    LET cand == Collect(t, <<Root>>, pos)
        kept == SelectSeq(cand, LAMBDA e : Accept(pos, e.position, overlap))
    IN  [i \in 1..Len(kept) |-> kept[i].item]

\* ----------------------------------------------- quadtree_from_pairs

\* pos_aabb[i]: AABB.__getitem__ on a box, Vector.__getitem__ on a point
GetItem(pos_aabb, i) ==
    IF IsAABB(pos_aabb)
    THEN [kind |-> "number", v |-> AabbBox(pos_aabb)[i + 1]]
    ELSE Vector__getitem__(pos_aabb, i)

\* Mutant of Widen: the far corner of a position left out.
WidenNear(b, pos_aabb) ==
    LET g(i) == GetItem(pos_aabb, i)
    IN  IF \E i \in 0..3 : g(i).kind = "raise"
        THEN (CHOOSE r \in {g(i) : i \in 0..3} : r.kind = "raise")
        ELSE [kind |-> "bounds",
              b |-> << Min2(g(0).v, b[1]), Min2(g(1).v, b[2]),
                       Max2(g(0).v, b[3]), Max2(g(1).v, b[4]) >>]

\* One pass of the first for loop: b = <<x_min, y_min, x_max, y_max>>
Widen(b, pos_aabb) ==
    LET g(i) == GetItem(pos_aabb, i)
    IN  IF \E i \in 0..3 : g(i).kind = "raise"
        THEN (CHOOSE r \in {g(i) : i \in 0..3} : r.kind = "raise")
        ELSE [kind |-> "bounds",
              b |-> << Min2(Min2(g(0).v, g(2).v), b[1]),
                       Min2(Min2(g(1).v, g(3).v), b[2]),
                       Max2(Max2(g(0).v, g(2).v), b[3]),
                       Max2(Max2(g(1).v, g(3).v), b[4]) >>]

\* The first for loop
RECURSIVE Extremes(_, _)
Extremes(quadtree_pairs, b) ==
    IF quadtree_pairs = <<>> THEN [kind |-> "bounds", b |-> b]
    ELSE LET w == Widen(b, Head(quadtree_pairs).pos)
         IN  IF w.kind = "raise" THEN w
             ELSE Extremes(Tail(quadtree_pairs), w.b)

\* The second for loop: every pair added in input order
RECURSIVE AddAll(_, _)
AddAll(t, quadtree_pairs) ==
    IF quadtree_pairs = <<>> THEN [tree |-> t, rets |-> <<>>]
    ELSE LET r == add(t, Head(quadtree_pairs).obj, Head(quadtree_pairs).pos)
             rest == AddAll(r.tree, Tail(quadtree_pairs))
         IN  [tree |-> rest.tree, rets |-> <<r.ret>> \o rest.rets]

\* Mutant of Degenerate: only the zero area rejected.
DegenerateZero(a) == a # NaN /\ a = 0

\* a in (0, inf, -inf)
Degenerate(a) == a # NaN /\ a \in {0, Inf, -Inf}

\* quadtree_from_pairs(quadtree_pairs, max_level)
quadtree_from_pairs(quadtree_pairs, max_level) ==
    IF quadtree_pairs = <<>> THEN None
    ELSE LET e == Extremes(quadtree_pairs, <<Inf, Inf, -Inf, -Inf>>)
         IN  IF e.kind = "raise" THEN e
             ELSE LET a == FMul(FSub(e.b[3], e.b[1]), FSub(e.b[4], e.b[2]))
                  IN  IF Degenerate(a) THEN None
                      ELSE [kind |-> "Quadtree",
                            q |-> AddAll(NewTree(e.b, max_level),
                                         quadtree_pairs).tree]

\* ------------------------------------------------------------ inputs
DefaultBox == <<0, 0, One, One>>
Levels == (0..MaxLevel) \cup {DefaultMaxLevel}
\* Objects are opaque to the tree (never compared, hashed or read): the
\* k-th add stores the k-th name.
Objs == <<"A", "B", "C", "D", "E">>

PosA == AABB(<<H(10), H(10), H(20), H(20)>>)
PosB == Point(H(70), H(20))
PosCentre == Point(H(50), H(50))
PosNearR == Point(H(50) + Tol \div 2, H(20))
PosNearL == Point(H(50) - Tol \div 2, H(20))
PosFarL == Point(H(50) - Tol \div 2 - 1, H(20))
PosOutside == Point(H(150), H(20))
PosCorner == Point(One, One)
PosStraddle == AABB(<<H(20), H(20), H(70), H(70)>>)
PosBig == AABB(<<-H(50), -H(50), H(150), H(150)>>)
PosInA == AABB(<<H(11), H(11), H(19), H(19)>>)
PosTouchA == AABB(<<H(20), H(20), H(30), H(30)>>)
PosOnA == Point(H(10), H(15))

Positions == {PosA, PosB, PosCentre, PosNearR, PosOutside, PosCorner,
              PosStraddle, PosBig}
Queries == {PosInA, PosBig, PosNearL, PosFarL, PosB, PosCentre,
            PosTouchA, PosOnA}

\* Positions of quadtree_from_pairs, on a grid that DefaultMaxLevel halvings
\* keep exact and whose areas stay finite.
G(n) == n * 2 ^ DefaultMaxLevel
PairBox == AABB(<<G(1), G(1), G(2), G(2)>>)
PairWide == AABB(<<G(3), G(4), G(7), G(5)>>)
PairDot == AABB(<<G(2), G(2), G(2), G(2)>>)
PairHalfPlane == AABB(<<0, 0, Inf, G(1)>>)
PairPoint == Point(G(7), G(2))
PairPositions == {PairBox, PairWide, PairDot, PairHalfPlane, PairPoint}
RECURSIVE SeqsUpTo(_, _)
SeqsUpTo(S, n) ==
    IF n = 0 THEN {<<>>}
    ELSE LET shorter == SeqsUpTo(S, n - 1)
         IN  shorter \cup {Append(q, x) : q \in shorter, x \in S}
PairLists ==
    {[k \in 1..Len(ps) |-> [pos |-> ps[k], obj |-> Objs[k]]] :
        ps \in SeqsUpTo(PairPositions, MaxPairs)}

\* Operands of Vector.__add__, __eq__ and almost_equal, in ticks: Near is
\* within the default tolerance of 0, Far is outside it and within Coarse.
Near == Tol \div 8
Far == Tol + Tol \div 4
Coarse == 2 * Tol
Coords == {0, Near}
Vectors ==
    {Vector(x, y) : x, y \in Coords} \cup {Point(x, y) : x, y \in Coords}
    \cup {VectorP(0, 0, -Coarse), VectorP(Far, 0, Tol \div 16),
          Vector(0, Far)}
\* The tolerance argument of almost_equal: absent, or a number.
\* The coordinates of a mutable Vector and the values assigned to them.
Nums == {0, 3 * Unit, -4 * Unit}
Assigned == {Number(n) : n \in Nums} \cup {[kind |-> "str"]}
Tolerances ==
    {[given |-> FALSE]} \cup {[given |-> TRUE, d |-> d] : d \in {Near, -Coarse}}
Others == { [kind |-> "number", v |-> 1],
            [kind |-> "tuple", items |-> <<1, 2>>],
            [kind |-> "tuple", items |-> <<1, 2, 3>>],
            [kind |-> "str"] }

\* ------------------------------------------------------------- state
VARIABLES
    tree, history, op,               \* a Quadtree, the adds made, the last call
    quadtree_pairs, max_level, built,  \* a call of quadtree_from_pairs
    lhs, rhs, sum, cmp,              \* lhs + rhs, or a comparison of them
    vec, call                        \* a mutable Vector and the last use of it

qvars == <<tree, history, op>>
pvars == <<quadtree_pairs, max_level, built>>
vvars == <<lhs, rhs, sum, cmp>>
svars == <<vec, call>>
vars == <<tree, history, op, quadtree_pairs, max_level, built,
          lhs, rhs, sum, cmp, vec, call>>

Pending == [kind |-> "pending"]
QIdle ==
    /\ tree = NewTree(DefaultBox, DefaultMaxLevel)
    /\ history = <<>>
    /\ op = [name |-> "new"]
PIdle == quadtree_pairs = <<>> /\ max_level = DefaultMaxLevel /\ built = Pending
SIdle == vec = Vector(0, 0) /\ call = [name |-> "new"]
VIdle ==
    lhs = Vector(0, 0) /\ rhs = Vector(0, 0) /\ sum = Pending /\ cmp = Pending

Init ==
    /\ \E ml \in Levels : tree = NewTree(DefaultBox, ml)
    /\ history = <<>>
    /\ op = [name |-> "new"]
    /\ PIdle /\ VIdle /\ SIdle

\* q.add(obj, pos)
Add(pos) ==
    /\ Len(history) < MaxAdds
    /\ LET obj == Objs[Len(history) + 1]
           r == add(tree, obj, pos)
       IN  /\ tree' = r.tree
           /\ history' = Append(history, [obj |-> obj, pos |-> pos,
                                          ret |-> r.ret])
           /\ op' = [name |-> "add", obj |-> obj, pos |-> pos,
                     ret |-> r.ret, levels |-> r.levels]
    /\ UNCHANGED <<pvars, vvars, svars>>

\* q.get_items(pos, overlap)
GetItems(pos, overlap) ==
    /\ op' = [name |-> "get_items", pos |-> pos, overlap |-> overlap,
              ret |-> get_items(tree, pos, overlap),
              levels |-> CollectLevels(tree, <<Root>>, pos)]
    /\ UNCHANGED <<tree, history, pvars, vvars, svars>>

Next ==
    \/ \E pos \in Positions : Add(pos)
    \/ \E pos \in Queries, overlap \in BOOLEAN : GetItems(pos, overlap)

Spec == Init /\ [][Next]_vars

\* ---- quadtree_from_pairs on every list of at most MaxPairs pairs
PairsInit ==
    /\ quadtree_pairs \in PairLists
    /\ max_level \in Levels
    /\ built = Pending
    /\ QIdle /\ VIdle /\ SIdle

FromPairs ==
    /\ built = Pending
    /\ built' = quadtree_from_pairs(quadtree_pairs, max_level)
    /\ UNCHANGED <<quadtree_pairs, max_level, qvars, vvars, svars>>

PairsNext == FromPairs

PairsSpec == PairsInit /\ [][PairsNext]_vars

\* ---- lhs + rhs with at least one Vector operand
VecInit ==
    /\ lhs \in Vectors \cup Others
    /\ rhs \in Vectors \cup Others
    /\ IsVector(lhs) \/ IsVector(rhs)
    /\ sum = Pending /\ cmp = Pending
    /\ QIdle /\ PIdle /\ SIdle

\* Vector.__add__ is called with the operands in their order; when only
\* the right operand is a Vector the build decides whether it is called
\* (binary slots without __radd__) or the addition is a TypeError.
VecAdd ==
    /\ sum = Pending /\ cmp = Pending
    /\ \/ sum' = Vector__add__(lhs, rhs)
       \/ ~IsVector(lhs) /\ sum' = Raise("TypeError")
    /\ UNCHANGED <<lhs, rhs, cmp, qvars, pvars, svars>>

\* lhs == rhs
VecEq ==
    /\ sum = Pending /\ cmp = Pending
    /\ IsVector(lhs)
    /\ cmp' \in {[name |-> "__eq__", ret |-> r] :
                    r \in Outcomes(Vector__eq__(lhs, rhs))}
    /\ UNCHANGED <<lhs, rhs, sum, qvars, pvars, svars>>

\* lhs.almost_equal(rhs) and lhs.almost_equal(rhs, d)
VecAlmostEqual(tol) ==
    /\ sum = Pending /\ cmp = Pending
    /\ IsVector(lhs)
    /\ LET r == IF tol.given THEN Vector_almost_equal(lhs, rhs, tol.d)
                 ELSE Vector_almost_equal_default(lhs, rhs)
       IN  cmp' \in {[name |-> "almost_equal", tol |-> tol, ret |-> o] :
                        o \in Outcomes(r)}
    /\ UNCHANGED <<lhs, rhs, sum, qvars, pvars, svars>>

VecNext ==
    \/ VecAdd
    \/ VecEq
    \/ \E tol \in Tolerances : VecAlmostEqual(tol)

VecSpec == VecInit /\ [][VecNext]_vars

\* ---- a Vector or Point whose coordinates are assigned, read and normalised
VectorInit ==
    /\ vec \in {Vector(x, y) : x, y \in Nums} \cup {Point(x, y) : x, y \in Nums}
    /\ call = [name |-> "new"]
    /\ QIdle /\ PIdle /\ VIdle

\* Each use of vec records the vector it found and the value returned or
\* the exception raised.
\* vec.x = v
SetX(v) ==
    /\ LET r == Vector_set_x(vec, v)
       IN  /\ vec' = r.self
           /\ call' = [name |-> "x", before |-> vec, ret |-> r.ret]
    /\ UNCHANGED <<qvars, pvars, vvars>>

\* vec.y = v
SetY(v) ==
    /\ LET r == Vector_set_y(vec, v)
       IN  /\ vec' = r.self
           /\ call' = [name |-> "y", before |-> vec, ret |-> r.ret]
    /\ UNCHANGED <<qvars, pvars, vvars>>

\* vec.length
Length ==
    /\ LET r == Vector_length(vec)
       IN  /\ vec' = r.self
           /\ call' = [name |-> "length", before |-> vec, ret |-> r.ret]
    /\ UNCHANGED <<qvars, pvars, vvars>>

\* vec.normalize()
Normalize ==
    /\ LET r == Vector_normalize(vec)
       IN  /\ vec' = r.self
           /\ call' = [name |-> "normalize", before |-> vec, ret |-> r.ret]
    /\ UNCHANGED <<qvars, pvars, vvars>>

\* vec.normalized()
Normalized ==
    /\ LET r == Vector_normalized(vec)
       IN  /\ vec' = r.self
           /\ call' = [name |-> "normalized", before |-> vec, ret |-> r.ret]
    /\ UNCHANGED <<qvars, pvars, vvars>>

VectorNext ==
    \/ \E v \in Assigned : SetX(v)
    \/ \E v \in Assigned : SetY(v)
    \/ Length
    \/ Normalize
    \/ Normalized

VectorSpec == VectorInit /\ [][VectorNext]_vars

\* ------------------------------------------------- helpers of the claims
\* The nodes of t holding obj, and the places (node, index) of an entry.
NodesOf(t, obj) ==
    {n \in DOMAIN t : \E j \in 1..Len(t[n].items) : t[n].items[j] = obj}
Slots(t) == UNION {{<<n, j>> : j \in 1..Len(t[n].items)} : n \in DOMAIN t}
Places(t, obj, pos) ==
    {s \in Slots(t) : /\ s[2] <= Len(t[s[1]].positions)
                      /\ t[s[1]].items[s[2]] = obj
                      /\ t[s[1]].positions[s[2]] = pos}
Succeeded == {k \in 1..Len(history) : history[k].ret}
Prefix(p, k) == SubSeq(p, 1, k)
\* The quadrants (0..3) of node n whose region contains pos.
Fitting(t, n, pos) == {i \in 0..3 : AabbLe(t[n].children[i + 1], pos)}
\* Every stored entry of t as [obj, pos].
AllEntries(t) ==
    {[obj |-> t[s[1]].items[s[2]], pos |-> t[s[1]].positions[s[2]]] :
        s \in Slots(t)}
\* p before q in the order of one level: lexicographic on quadrant indices.
LexLess(p, q) ==
    \E k \in 1..Len(p) : /\ \A m \in 1..(k - 1) : p[m] = q[m]
                         /\ p[k] < q[k]
Reverse(s) == [i \in 1..Len(s) |-> s[Len(s) + 1 - i]]

\* ---------------------------------------------------------------- C1
\* C1: add returns True exactly when the root region contains pos
\* (boundary inclusive) and False otherwise, in every tree state.
C1_AddTrueIffRootContains ==
    \A k \in 1..Len(history) :
        /\ history[k].ret \in BOOLEAN
        /\ history[k].ret = AabbLe(tree[Root].aabb, history[k].pos)
\* An add outside the root region has returned False after one inside it
\* that no child contains has returned True.
C1_Witness ==
    /\ tree[Root].child_nodes # <<>>
    /\ \E j, k \in 1..Len(history) :
          /\ history[j].pos = PosStraddle /\ history[j].ret
          /\ history[k].pos = PosOutside /\ ~history[k].ret

\* ---------------------------------------------------------------- C2
\* C2: the root's item_count equals the number of adds that returned True,
\* every successfully added entry is in the entry list of exactly one node,
\* once, and items and positions have equal length in every node.
C2_StoredExactlyOnce ==
    /\ item_count(tree, Root) = Cardinality(Succeeded)
    /\ \A n \in DOMAIN tree : Len(tree[n].items) = Len(tree[n].positions)
    /\ \A k \in Succeeded :
          Cardinality(Places(tree, history[k].obj, history[k].pos)) = 1
\* Two successful adds rest in different nodes of a subdivided tree.
C2_Witness ==
    /\ Cardinality(Succeeded) >= 2
    /\ \E m, n \in DOMAIN tree :
          m # n /\ tree[m].items # <<>> /\ tree[n].items # <<>>

\* ---------------------------------------------------------------- C3
\* C3 as stated: an entry is never inside one of several children that all
\* contain it: at every ancestor of the node it rests in, exactly one
\* quadrant contains its position.
C3_NeverForcedDeeper ==
    \A n \in DOMAIN tree : \A j \in 1..Len(tree[n].positions) :
        \A k \in 0..(Len(n) - 1) :
            Cardinality(Fitting(tree, Prefix(n, k), tree[n].positions[j])) = 1
\* C3 amended: an entry whose position several quadrants of a node contain
\* descends into the first of them in quadrant order (ul, ur, dl, dr): the
\* node it rests in is reached from the root by taking, at every level, the
\* first quadrant that contains its position.
C3_FirstFittingQuadrant ==
    \A n \in DOMAIN tree : \A j \in 1..Len(tree[n].positions) :
        \A k \in 0..(Len(n) - 1) :
            LET fit == Fitting(tree, Prefix(n, k), tree[n].positions[j])
            IN  fit # {} /\ n[k + 1] = SetMin(fit)
\* The centre of the root region, which all four quadrants contain, rests
\* below the root.
C3_Witness ==
    \E n \in DOMAIN tree :
        /\ Len(n) >= 1
        /\ \E j \in 1..Len(tree[n].positions) :
              tree[n].positions[j] = PosCentre
        /\ Cardinality(Fitting(tree, Root, PosCentre)) = 4

\* ---------------------------------------------------------------- C4
\* C4: get_items returns exactly the objects that the phase-2 filter,
\* applied to every entry of the whole tree, accepts.
C4_NoFalseNegatives ==
    op.name = "get_items" =>
        {op.ret[i] : i \in 1..Len(op.ret)} =
            {e.obj : e \in {e \in AllEntries(tree) :
                               Accept(op.pos, e.pos, op.overlap)}}

\* ---------------------------------------------------------------- C5
\* C5: a point query returns the object of every stored point within the
\* tolerance on both axes, wherever the two lie in the tree, and of no
\* stored point beyond the tolerance on either axis.
C5_PointToleranceMatch ==
    (op.name = "get_items" /\ ~IsAABB(op.pos)) =>
        \A e \in {e \in AllEntries(tree) : ~IsAABB(e.pos)} :
            (e.obj \in {op.ret[i] : i \in 1..Len(op.ret)})
                = (/\ Abs(op.pos.x - e.pos.x) <= Tol
                   /\ Abs(op.pos.y - e.pos.y) <= Tol)

\* ---------------------------------------------------------------- C6
\* C6: the adds of the history made in the reverse order on an empty tree
\* of the same shape return the same results, leave every object in the
\* same node, and give the same get_items result for every query that
\* matches at most one object.
C6_OrderIndependent ==
    (op.name = "add" /\ Len(history) >= 2) =>
        LET t0 == NewTree(AabbBox(tree[Root].aabb), tree[Root].max_level)
            r == AddAll(t0, Reverse(history))
        IN  /\ r.rets = Reverse([k \in 1..Len(history) |-> history[k].ret])
            /\ \A k \in 1..Len(history) :
                  NodesOf(r.tree, history[k].obj)
                      = NodesOf(tree, history[k].obj)
            /\ \A q \in Queries, ov \in BOOLEAN :
                  LET a == get_items(tree, q, ov)
                  IN  Len(a) <= 1 => get_items(r.tree, q, ov) = a
\* Two entries that share part of their descent path have been added.
C6_Witness ==
    /\ op.name = "add" /\ Len(history) >= 2
    /\ history[1].pos # history[2].pos
    /\ history[1].ret /\ history[2].ret
    /\ \E m, n \in DOMAIN tree :
          /\ m # n /\ Len(m) >= 1 /\ Len(n) >= 1 /\ m[1] = n[1]
          /\ tree[m].items # <<>> /\ tree[n].items # <<>>

\* ---------------------------------------------------------------- C7
\* C7: get_items lists objects of shallower nodes first, the nodes of one
\* level in quadrant order, the entries of one node in insertion order;
\* and in the documented example the enclosing query with overlap returns
\* A before B and the query inside A's box without overlap returns [A].
C7_DiscoveryOrder ==
    op.name = "get_items" =>
        /\ \A i, j \in 1..Len(op.ret) :
              i < j =>
                \E m \in NodesOf(tree, op.ret[i]),
                   n \in NodesOf(tree, op.ret[j]) :
                    \/ Len(m) < Len(n)
                    \/ Len(m) = Len(n) /\ LexLess(m, n)
                    \/ /\ m = n
                       /\ \E a, b \in 1..Len(tree[m].items) :
                             /\ a < b
                             /\ tree[m].items[a] = op.ret[i]
                             /\ tree[m].items[b] = op.ret[j]
        /\ ( /\ tree[Root].max_level = DefaultMaxLevel
             /\ history = << [obj |-> "A", pos |-> PosA, ret |-> TRUE],
                             [obj |-> "B", pos |-> PosB, ret |-> TRUE] >> )
           => /\ (op.pos = PosBig /\ op.overlap) => op.ret = <<"A", "B">>
              /\ (op.pos = PosInA /\ ~op.overlap) => op.ret = <<"A">>
\* The enclosing query returns the deeper, earlier added object last.
C7_Witness ==
    /\ op.name = "get_items" /\ op.pos = PosBig /\ op.overlap
    /\ tree[Root].max_level = DefaultMaxLevel
    /\ history = << [obj |-> "A", pos |-> PosB, ret |-> TRUE],
                    [obj |-> "B", pos |-> PosA, ret |-> TRUE] >>
    /\ op.ret = <<"B", "A">>

\* ------------------------------------------ helpers of C8 and C9
SetMax(S) == CHOOSE x \in S : \A y \in S : x >= y
Xs(p) == IF IsAABB(p) THEN {p.x1, p.x2} ELSE {p.x}
Ys(p) == IF IsAABB(p) THEN {p.y1, p.y2} ELSE {p.y}
AllXs == UNION {Xs(quadtree_pairs[k].pos) : k \in 1..Len(quadtree_pairs)}
AllYs == UNION {Ys(quadtree_pairs[k].pos) : k \in 1..Len(quadtree_pairs)}
\* The minimal bounding box of all positions and its area.
MinimalBox == <<SetMin(AllXs), SetMin(AllYs), SetMax(AllXs), SetMax(AllYs)>>
MinimalArea ==
    FMul(FSub(MinimalBox[3], MinimalBox[1]), FSub(MinimalBox[4], MinimalBox[2]))
AllBoxes == \A k \in 1..Len(quadtree_pairs) : IsAABB(quadtree_pairs[k].pos)
\* built is a tree over the minimal box holding every pair, in input order.
BuiltOverMinimalBox ==
    /\ built.kind = "Quadtree"
    /\ built.q[Root].aabb = AABB(MinimalBox)
    /\ built.q[Root].max_level = max_level
    /\ item_count(built.q, Root) = Len(quadtree_pairs)
    /\ \A k \in 1..Len(quadtree_pairs) :
          Places(built.q, quadtree_pairs[k].obj, quadtree_pairs[k].pos) # {}
    /\ \A j, k \in 1..Len(quadtree_pairs) :
          j < k =>
            \A a \in Places(built.q, quadtree_pairs[j].obj,
                            quadtree_pairs[j].pos),
               b \in Places(built.q, quadtree_pairs[k].obj,
                            quadtree_pairs[k].pos) :
                a[1] = b[1] => a[2] < b[2]

\* ---------------------------------------------------------------- C8
\* C8 as stated: for a non-empty list whose positions, boxes or points,
\* span a box of non-zero finite area, the result is a tree over the minimal
\* bounding box that holds every pair, item_count being the number of pairs.
C8_BoxesOrPoints ==
    (built # Pending /\ quadtree_pairs # <<>>
        /\ MinimalArea \notin {0, Inf, -Inf, NaN})
    => BuiltOverMinimalBox
\* C8 amended: the same for a list whose positions are all boxes (AABB).
C8_BoxesOnly ==
    (built # Pending /\ quadtree_pairs # <<>> /\ AllBoxes
        /\ MinimalArea \notin {0, Inf, -Inf, NaN})
    => BuiltOverMinimalBox
\* Two different boxes have been built into a subdivided tree.
C8_Witness ==
    /\ Len(quadtree_pairs) = 2 /\ AllBoxes
    /\ quadtree_pairs[1].pos # quadtree_pairs[2].pos
    /\ built.kind = "Quadtree"
    /\ built.q[Root].child_nodes # <<>>
    /\ item_count(built.q, Root) = 2

\* ---------------------------------------------------------------- C9
\* C9 as stated: the result is None for an empty list, and None when the
\* bounding area of all positions is zero or infinite, in particular when
\* all pairs share one exact point.
C9_NoneWhenDegenerate ==
    built # Pending =>
        /\ quadtree_pairs = <<>> => built = None
        /\ (quadtree_pairs # <<>> /\ MinimalArea \in {0, Inf, -Inf})
              => built = None
\* C9 amended: the result is None for an empty list, and None when all
\* positions are boxes whose bounding area is zero or infinite, in
\* particular when all are the same zero-size box.
C9_NoneWhenDegenerateBoxes ==
    built # Pending =>
        /\ quadtree_pairs = <<>> => built = None
        /\ (quadtree_pairs # <<>> /\ AllBoxes
               /\ MinimalArea \in {0, Inf, -Inf})
              => built = None
\* All pairs share one exact point, given as a zero-size box.
C9_Witness ==
    /\ Len(quadtree_pairs) = 2
    /\ \A k \in 1..2 : quadtree_pairs[k].pos = PairDot
    /\ MinimalArea = 0
    /\ built = None

\* --------------------------------------------------------------- C10
\* C10 as stated: p + v, v + p and p + (x, y) are Points for a Point p, a
\* Vector v and a numeric 2-tuple; v + v2 of two plain Vectors is a Vector.
C10_AnyPointOperandGivesPoint ==
    sum # Pending =>
        /\ (lhs.kind = "Point" /\ IsVector(rhs)) => sum.kind = "Point"
        /\ (IsVector(lhs) /\ rhs.kind = "Point") => sum.kind = "Point"
        /\ (lhs.kind = "Point" /\ IsTuple(rhs) /\ Len(rhs.items) = 2)
              => sum.kind = "Point"
        /\ (lhs.kind = "Vector" /\ rhs.kind = "Vector")
              => sum.kind = "Vector"
\* C10 amended: the sum has the result type of the left operand: p + v and
\* p + (x, y) are Points, v + p and v + v2 are plain Vectors.
C10_LeftOperandType ==
    sum # Pending =>
        /\ (lhs.kind = "Point" /\ IsVector(rhs)) => sum.kind = "Point"
        /\ (lhs.kind = "Vector" /\ IsVector(rhs)) => sum.kind = "Vector"
        /\ (lhs.kind = "Point" /\ IsTuple(rhs) /\ Len(rhs.items) = 2)
              => sum.kind = "Point"
\* A plain Vector plus a Point has given a plain Vector.
C10_Witness ==
    /\ lhs.kind = "Vector" /\ rhs.kind = "Point"
    /\ sum.kind = "Vector"
    /\ sum.x = lhs.x + rhs.x /\ sum.y = lhs.y + rhs.y

\* ---------------------------------------------------------------- C11
\* |x - x'| <= |d| and |y - y'| <= |d|
Within(v, w, d) == Abs(v.x - w.x) <= Abs(d) /\ Abs(v.y - w.y) <= Abs(d)
Compared(name) == cmp # Pending /\ cmp.name = name /\ IsVector(rhs)

\* C11 as stated: almost_equal without a tolerance compares within the
\* precision of the vector it is called on, so v == w and v.almost_equal(w)
\* give the same result whatever the precision v was constructed with.
C11_EqIsDefaultAlmostEqual ==
    /\ (Compared("almost_equal") /\ ~cmp.tol.given)
          => cmp.ret = Bool(Within(lhs, rhs, lhs.precision))
    /\ Compared("__eq__") => cmp.ret = Vector_almost_equal_default(lhs, rhs)

\* C11 amended: almost_equal with a tolerance d is true exactly when both
\* coordinates differ by at most |d|; without a tolerance d is 1e-6 whatever
\* the precision of the vector; v == w compares within the precision of v,
\* and so agrees with v.almost_equal(w) when that precision is 1e-6, as it
\* is for every Point.
C11_EqUsesPrecision ==
    /\ (Compared("almost_equal") /\ cmp.tol.given)
          => cmp.ret = Bool(Within(lhs, rhs, cmp.tol.d))
    /\ (Compared("almost_equal") /\ ~cmp.tol.given)
          => cmp.ret = Bool(Within(lhs, rhs, Tol))
    /\ Compared("__eq__") => cmp.ret = Bool(Within(lhs, rhs, lhs.precision))
    /\ (Compared("__eq__") /\ (Abs(lhs.precision) = Tol \/ lhs.kind = "Point"))
          => cmp.ret = Vector_almost_equal_default(lhs, rhs)

\* v == w is True within the coarse precision of v where v.almost_equal(w)
\* is False.
C11_Witness ==
    /\ Compared("__eq__")
    /\ lhs = VectorP(0, 0, -Coarse) /\ rhs = Vector(0, Far)
    /\ cmp.ret = Bool(TRUE)
    /\ Vector_almost_equal_default(lhs, rhs) = Bool(FALSE)

\* ---------------------------------------------------------------- C12
\* C12: in a tree of max depth 0 the root is never subdivided: it is the
\* only node, it has no children, and it holds every successfully added
\* object, item_count of them.
C12_DepthZeroIsFlat ==
    tree[Root].max_level = 0 =>
        /\ DOMAIN tree = {Root}
        /\ tree[Root].child_nodes = <<>>
        /\ \A k \in Succeeded :
              Places(tree, history[k].obj, history[k].pos) \subseteq
                  {<<Root, j>> : j \in 1..Len(tree[Root].items)}
        /\ \A k \in Succeeded : Places(tree, history[k].obj, history[k].pos) # {}
        /\ Len(tree[Root].items) = Cardinality(Succeeded)
        /\ item_count(tree, Root) = Len(tree[Root].items)

\* Two objects added to a tree of max depth 0, in different quadrants.
C12_Witness ==
    /\ tree[Root].max_level = 0
    /\ Len(history) = 2 /\ Succeeded = {1, 2}
    /\ history[1].pos = PosA /\ history[2].pos = PosB
    /\ tree[Root].items = <<"A", "B">>

\* ---------------------------------------------------------------- C13
Used(name) == call.name = name
Norm(v) == Sqrt(v.x * v.x + v.y * v.y)
ZeroLength(v) == Norm(v) = 0

\* C13 as stated: normalize() and normalized() raise ValueError on a vector
\* of zero length, the failing normalize() leaves x, y and the cached length
\* state as they were, and normalize() returns True on a non-zero vector.
C13_FailingNormalizeChangesNothing ==
    /\ (Used("normalize") /\ ZeroLength(call.before))
          => call.ret = Raise("ValueError") /\ vec = call.before
    /\ (Used("normalized") /\ ZeroLength(call.before))
          => call.ret = Raise("ValueError")
    /\ (Used("normalize") /\ ~ZeroLength(call.before)) => call.ret = Bool(TRUE)

\* C13 amended: normalize() and normalized() raise ValueError on a vector of
\* zero length; the failing normalize() leaves x and y unchanged, and having
\* read the length it leaves the cache valid with length 0, whatever the
\* cache held before; normalize() returns True on a non-zero vector.
C13_FailingNormalizeValidatesCache ==
    /\ (Used("normalize") /\ ZeroLength(call.before))
          => /\ call.ret = Raise("ValueError")
             /\ vec = [call.before EXCEPT !.length = 0, !.dirty = 0]
    /\ (Used("normalized") /\ ZeroLength(call.before))
          => call.ret = Raise("ValueError")
    /\ (Used("normalize") /\ ~ZeroLength(call.before)) => call.ret = Bool(TRUE)

\* normalize() fails on a zero vector whose cache was invalid and still held
\* the length of earlier coordinates.
C13_Witness ==
    /\ Used("normalize") /\ call.ret = Raise("ValueError")
    /\ ZeroLength(call.before) /\ ZeroLength(vec)
    /\ call.before.dirty = 1 /\ call.before.length = 3 * Unit
    /\ vec.dirty = 0 /\ vec.length = 0

\* ---------------------------------------------------------------- C16
\* C16: whenever the cache is valid (_dirty = 0) the cached length is
\* sqrt(x^2 + y^2) of the current coordinates; every successful assignment
\* to x or y and every successful normalize() leaves the cache invalid; a
\* read of length returns the norm of the current coordinates and leaves
\* them as they are.
C16_LengthCache ==
    /\ vec.dirty = 0 => vec.length = Norm(vec)
    /\ ((Used("x") \/ Used("y")) /\ call.ret = None) => vec.dirty = 1
    /\ (Used("normalize") /\ call.ret = Bool(TRUE)) => vec.dirty = 1
    /\ Used("length")
          => /\ call.ret = Number(Norm(call.before))
             /\ vec.x = call.before.x /\ vec.y = call.before.y

\* A read of length after an assignment: the cache held the length 3 of
\* (3, 0), the vector is (3, -4) and 5 is read.
C16_Witness ==
    /\ Used("length")
    /\ call.before.dirty = 1 /\ call.before.length = 3 * Unit
    /\ vec.x = 3 * Unit /\ vec.y = -4 * Unit
    /\ call.ret = Number(5 * Unit)
    /\ vec.dirty = 0 /\ vec.length = 5 * Unit

\* ---------------------------------------------------------------- C14
\* C14: the region of the node holding an entry contains the entry's
\* position, and that node either has max_level 0 or has four children none
\* of whose regions contains the position.
C14_PlacementInvariant ==
    \A s \in Slots(tree) :
        LET n == s[1]
            pos == tree[n].positions[s[2]]
        IN  /\ AabbLe(tree[n].aabb, pos)
            /\ \/ tree[n].max_level = 0
               \/ /\ Len(tree[n].child_nodes) = 4
                  /\ \A i \in 1..4 :
                        ~AabbLe(tree[tree[n].child_nodes[i]].aabb, pos)

\* One entry rests at a subdivided root because it straddles the quadrants,
\* another at a node of max_level 0 below the root.
C14_Witness ==
    /\ tree[Root].max_level > 0
    /\ \E j \in 1..Len(tree[Root].items) : tree[Root].positions[j] = PosStraddle
    /\ \E n \in DOMAIN tree :
          /\ n # Root /\ tree[n].max_level = 0
          /\ \E j \in 1..Len(tree[n].items) : tree[n].positions[j] = PosA

\* ---------------------------------------------------------------- C15
\* Quadrant i (0 upper-left, 1 upper-right, 2 lower-left, 3 lower-right) of
\* the region a, split at its centre.
QuadrantOf(a, i) ==
    LET cx == a.x1 + (a.x2 - a.x1) \div 2
        cy == a.y1 + (a.y2 - a.y1) \div 2
    IN  [kind |-> "AABB",
         x1 |-> IF i \in {0, 2} THEN a.x1 ELSE cx,
         x2 |-> IF i \in {0, 2} THEN cx ELSE a.x2,
         y1 |-> IF i \in {0, 1} THEN a.y1 ELSE cy,
         y2 |-> IF i \in {0, 1} THEN cy ELSE a.y2]

\* C15: every node has no children or exactly four; child i covers quadrant
\* i of its parent's region and has a max_level one less; a node of
\* max_level 0 has no children; populate_children changes nothing at a node
\* that has children; no node lies deeper than the max depth of the root;
\* add and get_items visit at most max depth + 1 levels.
C15_TreeShape ==
    /\ \A n \in DOMAIN tree :
          LET kids == tree[n].child_nodes
          IN  /\ Len(kids) \in {0, 4}
              /\ \A i \in 1..Len(kids) :
                    /\ kids[i] = Append(n, i - 1) /\ kids[i] \in DOMAIN tree
                    /\ tree[kids[i]].aabb = QuadrantOf(tree[n].aabb, i - 1)
                    /\ tree[kids[i]].max_level = tree[n].max_level - 1
              /\ tree[n].max_level = 0 => kids = <<>>
              /\ kids # <<>> => populate_children(tree, n) = tree
              /\ Len(n) <= tree[Root].max_level
              /\ n # Root =>
                    /\ Prefix(n, Len(n) - 1) \in DOMAIN tree
                    /\ tree[Prefix(n, Len(n) - 1)].child_nodes # <<>>
    /\ op.name \in {"add", "get_items"}
          => op.levels >= 1 /\ op.levels <= tree[Root].max_level + 1

\* A tree of max depth MaxLevel subdivided down to its last level by an add
\* that visited MaxLevel + 1 levels, and a query that visits as many.
C15_Witness ==
    /\ tree[Root].max_level = MaxLevel
    /\ \E n \in DOMAIN tree : Len(n) = MaxLevel /\ tree[n].items # <<>>
    /\ op.name = "get_items" /\ op.levels = MaxLevel + 1
    /\ \E k \in 1..Len(history) : history[k].ret

\* ---------------------------------------------------------------- C17
\* The step is a call of add, and the outcome it recorded.
AddStep == Len(history') = Len(history) + 1
LastAdd == history'[Len(history')]
\* The node whose items the step extended.
Resting ==
    CHOOSE n \in DOMAIN tree' :
        Len(tree'[n].items) > (IF n \in DOMAIN tree THEN Len(tree[n].items) ELSE 0)

\* C17: an add that returns False leaves the tree as it was, no entry
\* appended and no child created; an add that returns True creates children
\* only below nodes on the path from the root to the node where the entry
\* rests, each of them a node whose region contains the position, and it
\* leaves every node it found as it was but for that entry and those children.
C17_FailingAddChangesNothing ==
    [][AddStep =>
          /\ ~LastAdd.ret => tree' = tree
          /\ LastAdd.ret =>
                /\ \A n \in DOMAIN tree' \ DOMAIN tree :
                      LET m == Prefix(n, Len(n) - 1)
                      IN  /\ m = Prefix(Resting, Len(m))
                          /\ AabbLe(tree'[m].aabb, LastAdd.pos)
                /\ \A n \in DOMAIN tree :
                      /\ n \in DOMAIN tree'
                      /\ tree'[n].aabb = tree[n].aabb
                      /\ tree'[n].max_level = tree[n].max_level
                      /\ n # Resting => tree'[n].items = tree[n].items
                      /\ tree[n].child_nodes # <<>>
                            => tree'[n].child_nodes = tree[n].child_nodes
         ]_vars

\* In a tree of the default depth a point was added, which subdivided only
\* the nodes of its path, and an add outside the root then failed.
C17_Witness ==
    /\ Len(history) = 2 /\ history[1].ret /\ ~history[2].ret
    /\ history[1].pos = PosB /\ history[2].pos = PosOutside
    /\ op.name = "add" /\ ~op.ret
    /\ tree[Root].max_level = DefaultMaxLevel
    /\ Cardinality(DOMAIN tree) = 4 * DefaultMaxLevel + 1
    /\ item_count(tree, Root) = 1

====
